---- MODULE Spec2Model ----
(***************************************************************************)
(* Worktime: per-day work records, their duration arithmetic, the JSON     *)
(* store (WorkStore.load / WorkStore.save) and the handlers of MainWindow  *)
(* that change the store (on_register, on_punch_in, on_punch_out,          *)
(* recalc_month, on_save_clicked, closeEvent).                             *)
(*                                                                         *)
(* Representation.                                                         *)
(*   - a 'HH:MM' string is the pair <<h, mi>>; the empty string of a time  *)
(*     field is <<>>.  Free text (location, project, memo) is a string.    *)
(*   - a datetime is a number of minutes since 2025-01-01 00:00; the       *)
(*     datetimes on the reference date 2000-01-01 used by on_register and  *)
(*     recalc_month are minutes since the start of that date.              *)
(*   - a date key 'YYYY-MM-DD' is the triple <<y, m, d>>; the order of the *)
(*     strings is the lexicographic order of the triples.                  *)
(*   - a file is [kind, doc]: kind "absent" (no such path), "corrupt"      *)
(*     (any text on which _parse_text raises: truncated or empty output,   *)
(*     invalid JSON, a non-object) or "json" with doc the parsed object:   *)
(*     date key -> JSON object.  A JSON object's member is <<>> when the   *)
(*     key is missing and <<v>> when it is present with value v.           *)
(***************************************************************************)
EXTENDS Integers, Sequences, FiniteSets, TLC

VARIABLES
    data,        \* WorkStore.data: date key -> DayRecord
    cfg,         \* MainWindow.cfg: the rule parameters and location candidates
    primary,     \* the file at WorkStore.path
    backup,      \* the file at path.with_suffix(".bak")
    tmp,         \* the file at path.with_suffix(".tmp")
    pc,          \* position of the process: "idle" or a step of save()
    lockHeld,    \* portalocker lock on the temporary file is held
    after,       \* what the running handler does once save() returns
    prevPrimary, \* history: the primary file when the running save() started
    saveStatus,  \* outcome of the last save(): "none", "running", "ok", "raised"
    failedAt,    \* step at which the last save() raised, "" otherwise
    loadStatus,  \* history: which branch the last load() returned from
    loaded,      \* history: the map the load() of the running process returned
    lastOp,      \* history: the last handler run, its inputs and its report
    ops,         \* number of handlers run so far
    args,        \* input of the pure function under check
    result,      \* its output
    launch,      \* position of each launched process in main()
    listener,    \* the process whose QLocalServer owns SINGLE_INSTANCE_KEY, 0 for none
    pending      \* per process: connections to its server not yet handled

vars == <<data, cfg, primary, backup, tmp, pc, lockHeld, after, prevPrimary, saveStatus, failedAt,
          loadStatus, loaded,
          lastOp, ops, args, result, launch, listener, pending>>

-----------------------------------------------------------------------------
(* Bounds of the model.                                                    *)

MaxOps == 1

-----------------------------------------------------------------------------
(* Time and dates.                                                         *)

DayMinutes == 24 * 60

Unset == <<>>

\* datetime(2000, 1, 1, h, mi) of on_register.to_dt / recalc_month.to_dt,
\* in minutes since the start of the reference date.  int('') raises.
to_dt(hhmm) == hhmm[1] * 60 + hhmm[2]

\* whether map(int, hhmm.split(":")) and datetime(...) succeed
Parses(hhmm) == hhmm # Unset

\* t.strftime('%H:%M'): the time of day, the date is dropped
strftime_hm(t) == << (t % DayMinutes) \div 60, t % 60 >>

\* days before the first of month m in 2025
CumDays == <<0, 31, 59, 90, 120, 151, 181, 212, 243, 273, 304, 334>>

\* day number of a date key of 2025, from 0
DayOrdinal(dk) == CumDays[dk[2]] + dk[3] - 1

\* dt_on(date_str, hhmm)
dt_on(dk, hhmm) == DayOrdinal(dk) * DayMinutes + to_dt(hhmm)

\* now.strftime("%Y-%m-%d") for a datetime of January..March 2025
DateKeyOf(t) ==
    LET o == t \div DayMinutes
        m == CHOOSE k \in 1..12 : CumDays[k] <= o /\ (k = 12 \/ o < CumDays[k + 1])
    IN <<2025, m, o - CumDays[m] + 1>>

\* date_str.startswith(f"{year}-{month:02d}")
HasPrefix(dk, year, month) == dk[1] = year /\ dk[2] = month

\* order of the date strings
DateLess(a, b) ==
    \/ a[1] < b[1]
    \/ a[1] = b[1] /\ a[2] < b[2]
    \/ a[1] = b[1] /\ a[2] = b[2] /\ a[3] < b[3]

-----------------------------------------------------------------------------
(* Duration arithmetic.                                                    *)

\* the loop body of normalize_monotonic: t is pushed one day when it is
\* earlier than the last accepted value
NextOut(last, t) == IF t < last THEN t + DayMinutes ELSE t

normalize_monotonic(start, bstart, bend, end) ==
    LET o1 == start
        o2 == NextOut(o1, bstart)
        o3 == NextOut(o2, bend)
        o4 == NextOut(o3, end)
    IN <<o1, o2, o3, o4>>

\* the duration without the break taken out
calc_duration_NoBreak(start, bstart, bend, end) == end - start

calc_duration(start, bstart, bend, end) == (bstart - start) + (end - bend)

\* rounding down to a multiple of the step instead of to the nearest one
round_duration_Floor(total, minutes) ==
    IF minutes <= 1 THEN total
    ELSE (total \div minutes) * minutes

round_duration(total, minutes) ==
    IF minutes <= 1 THEN total
    ELSE ((total + (minutes \div 2)) \div minutes) * minutes

-----------------------------------------------------------------------------
(* DayRecord and the persisted format.                                     *)

DayRecord(start, break_start, break_end, end, location, worked_minutes, project, memo) ==
    [start |-> start, break_start |-> break_start, break_end |-> break_end,
     end |-> end, location |-> location, worked_minutes |-> worked_minutes,
     project |-> project, memo |-> memo]

EmptyMap == [dk \in {} |-> 0]

\* a fresh dict holding the one record
Put_Only(map, dk, rec) == [k \in {dk} |-> rec]

\* dict assignment self.store.data[date_key] = rec
Put(map, dk, rec) == [k \in DOMAIN map \cup {dk} |-> IF k = dk THEN rec ELSE map[k]]

Absent == [kind |-> "absent", doc |-> EmptyMap]
Corrupt == [kind |-> "corrupt", doc |-> EmptyMap]
JsonFile(doc) == [kind |-> "json", doc |-> doc]

\* path.exists()
Exists(file) == file.kind # "absent"

\* record.get(key, default) on a JSON object
Get(member, default) == IF member = <<>> THEN default ELSE member[1]

\* `serializable` built without the memo key
Serialize_NoMemo(map) ==
    [dk \in DOMAIN map |->
        [start |-> <<map[dk].start>>, break_start |-> <<map[dk].break_start>>,
         break_end |-> <<map[dk].break_end>>, end |-> <<map[dk].end>>,
         location |-> <<map[dk].location>>,
         worked_minutes |-> <<map[dk].worked_minutes>>,
         project |-> <<map[dk].project>>, memo |-> <<>>]]

\* the body of save() that builds `serializable` (lines 229-240) and
\* json.dump of it: every record is written with all eight keys
Serialize(map) ==
    [dk \in DOMAIN map |->
        [start |-> <<map[dk].start>>, break_start |-> <<map[dk].break_start>>,
         break_end |-> <<map[dk].break_end>>, end |-> <<map[dk].end>>,
         location |-> <<map[dk].location>>,
         worked_minutes |-> <<map[dk].worked_minutes>>,
         project |-> <<map[dk].project>>, memo |-> <<map[dk].memo>>]]

\* whether _parse_text(file text) returns instead of raising
ParseOk(file) == file.kind = "json"

\* _parse_text: missing keys take their defaults
parse_text(file) ==
    [dk \in DOMAIN file.doc |->
        DayRecord(Get(file.doc[dk].start, Unset), Get(file.doc[dk].break_start, Unset),
                  Get(file.doc[dk].break_end, Unset), Get(file.doc[dk].end, Unset),
                  Get(file.doc[dk].location, ""), Get(file.doc[dk].worked_minutes, 0),
                  Get(file.doc[dk].project, ""), Get(file.doc[dk].memo, ""))]

\* the try/except around _parse_text(path.read_text()) in load()
TryParse(file) ==
    IF ParseOk(file) THEN [ok |-> TRUE, map |-> parse_text(file)]
    ELSE [ok |-> FALSE, map |-> EmptyMap]

\* load() without the try/except around the parse of the primary file
load_unguarded(prim, bak) ==
    IF Exists(prim)
    THEN IF TryParse(prim).ok
         THEN [status |-> "primary", map |-> TryParse(prim).map]
         ELSE [status |-> "raised", map |-> EmptyMap]
    ELSE IF Exists(bak) /\ TryParse(bak).ok
    THEN [status |-> "backup", map |-> TryParse(bak).map]
    ELSE [status |-> "empty", map |-> EmptyMap]

\* WorkStore.load: the map it returns and the return statement taken
\* ("raised" when an exception leaves load, which the code never lets happen)
load(prim, bak) ==
    IF Exists(prim) /\ TryParse(prim).ok
    THEN [status |-> "primary", map |-> TryParse(prim).map]
    ELSE IF Exists(bak) /\ TryParse(bak).ok
    THEN [status |-> "backup", map |-> TryParse(bak).map]
    ELSE [status |-> "empty", map |-> EmptyMap]

-----------------------------------------------------------------------------
(* Inputs.                                                                 *)

\* the dates the calendar widget and the clock range over
DateKeys == {<<2025, 1, 30>>, <<2025, 1, 31>>, <<2025, 2, 1>>}

\* the (year, month) pairs of the recalculation dialog
Months == {<<2025, 1>>, <<2025, 2>>}

\* values of the four QTimeEdit widgets at registration
ManualInputs ==
    { << <<9, 0>>, <<12, 0>>, <<13, 0>>, <<18, 5>> >>,      \* a day shift
      << <<22, 0>>, <<23, 0>>, <<23, 30>>, <<6, 0>> >>,     \* end after midnight
      << <<10, 0>>, <<10, 1>>, <<10, 0>>, <<0, 0>> >> }     \* break ends before it starts

\* values of datetime.now() at the punch handlers
Nows ==
    { dt_on(<<2025, 1, 30>>, <<9, 0>>), dt_on(<<2025, 1, 31>>, <<18, 7>>),
      dt_on(<<2025, 1, 31>>, <<23, 30>>), dt_on(<<2025, 2, 1>>, <<9, 0>>),
      dt_on(<<2025, 2, 2>>, <<23, 0>>) }

\* contents of the location, project and memo widgets (after .strip())
Forms ==
    { [location |-> "A", project |-> "P", memo |-> ""],
      [location |-> "", project |-> "", memo |-> "m"] }

\* sorted(...) of the location texts
SortedLocations == <<"A">>

\* values of the rounding spin box (range 1..60) and of the fixed-break spin
\* box (range 0..180)
RoundSteps == {1, 15}
BreakMinutes == {0, 60}

\* JSON objects of files found at start-up
ObjManualStale ==
    [start |-> << <<9, 0>> >>, break_start |-> << <<12, 0>> >>,
     break_end |-> << <<13, 0>> >>, end |-> << <<18, 5>> >>,
     location |-> <<"A">>, worked_minutes |-> <<400>>,
     project |-> <<"P">>, memo |-> <<"">>]
\* written by a version without project and memo: an open punch
ObjOpenPunch ==
    [start |-> << <<22, 0>> >>, break_start |-> << <<>> >>,
     break_end |-> << <<>> >>, end |-> << <<>> >>,
     location |-> <<"A">>, worked_minutes |-> <<0>>,
     project |-> <<>>, memo |-> <<>>]
\* a record with breaks whose start is empty: to_dt('') raises in recalc_month
ObjNoStart ==
    [start |-> << <<>> >>, break_start |-> << <<12, 0>> >>,
     break_end |-> << <<13, 0>> >>, end |-> << <<18, 0>> >>,
     location |-> <<"A">>, worked_minutes |-> <<300>>,
     project |-> <<"">>, memo |-> <<"m">>]
ObjClosedPunch ==
    [start |-> << <<23, 30>> >>, break_start |-> << <<>> >>,
     break_end |-> << <<>> >>, end |-> << <<9, 0>> >>,
     location |-> <<>>, worked_minutes |-> <<>>,
     project |-> <<"P">>, memo |-> <<"">>]

DocA == [dk \in {<<2025, 1, 30>>, <<2025, 1, 31>>, <<2025, 2, 1>>} |->
            IF dk = <<2025, 1, 30>> THEN ObjManualStale ELSE ObjOpenPunch]
DocB == [dk \in {<<2025, 1, 30>>, <<2025, 1, 31>>, <<2025, 2, 1>>} |->
            IF dk = <<2025, 1, 30>> THEN ObjNoStart
            ELSE IF dk = <<2025, 1, 31>> THEN ObjClosedPunch ELSE ObjManualStale]

\* the primary and the backup file found at start-up
InitFiles ==
    { <<Absent, Absent>>, <<JsonFile(DocA), Absent>>, <<JsonFile(DocB), JsonFile(DocA)>>,
      <<Corrupt, JsonFile(DocA)>>, <<Absent, JsonFile(DocB)>>, <<Corrupt, Corrupt>> }

-----------------------------------------------------------------------------
(* Start of a process: MainWindow.__init__.                                *)

\* load_config(): the rule parameters of the configuration file; the keys
\* default_location and locations are absent from it
Configs ==
    { [rounding_minutes |-> 1, fixed_break_minutes |-> 60,
       last_location |-> "", locations |-> <<>>],
      [rounding_minutes |-> 15, fixed_break_minutes |-> 0,
       last_location |-> "", locations |-> <<>>] }

\* seed_candidates_from_store, the locations part
seed_candidates_from_store(c, map) ==
    LET present == {map[dk].location : dk \in DOMAIN map} \ {""}
        locs == SelectSeq(SortedLocations, LAMBDA l : l \in present)
    IN IF c.locations = <<>> /\ locs # <<>> THEN [c EXCEPT !.locations = locs] ELSE c

\* _update_candidates(value, "locations")
update_candidates(c, value) ==
    IF value = "" \/ (\E i \in 1..Len(c.locations) : c.locations[i] = value)
    THEN c
    ELSE [c EXCEPT !.locations = Append(c.locations, value)]

\* the processes that main() may be started in (any two of them are two
\* launches of the application)
Procs == {1, 2, 3}

\* main() has run in process 1 alone: its server listens, its window is shown
OneRunning ==
    /\ launch = [p \in Procs |-> IF p = 1 THEN "window" ELSE "main"]
    /\ listener = 1
    /\ pending = [p \in Procs |-> 0]

NoAfter == [kind |-> "none", location |-> ""]

\* what the history records of a handler: its inputs, whether it got past its
\* early returns, the kind of record it found and the counts it reported
NoOp(name) ==
    [op |-> name, date |-> <<>>, now |-> 0, month |-> <<>>, rounding |-> 0,
     changed |-> 0, skipped |-> 0, done |-> FALSE, existed |-> "none"]

\* manual-entry record: both break fields are set (line 905)
IsManual(rec) == rec.break_start # Unset /\ rec.break_end # Unset

KindOf(map, dk) ==
    IF dk \notin DOMAIN map THEN "none"
    ELSE IF IsManual(map[dk]) THEN "manual" ELSE "punch"

\* WorkStore.__init__ and the part of MainWindow.__init__ that follows it
StartProcess ==
    /\ data' = load(primary, backup).map
    /\ loadStatus' = load(primary, backup).status
    /\ loaded' = load(primary, backup).map
    /\ cfg' = seed_candidates_from_store(cfg, load(primary, backup).map)
    /\ pc' = "idle"
    /\ lockHeld' = FALSE
    /\ after' = NoAfter

Init ==
    /\ \E files \in InitFiles : primary = files[1] /\ backup = files[2]
    /\ tmp = Absent
    /\ data = load(primary, backup).map
    /\ loadStatus = load(primary, backup).status
    /\ loaded = load(primary, backup).map
    /\ \E c \in Configs : cfg = seed_candidates_from_store(c, data)
    /\ pc = "idle"
    /\ lockHeld = FALSE
    /\ after = NoAfter
    /\ prevPrimary = primary
    /\ saveStatus = "none"
    /\ failedAt = ""
    /\ lastOp = NoOp("start")
    /\ OneRunning
    /\ ops = 0
    /\ args = <<>>
    /\ result = <<>>

-----------------------------------------------------------------------------
(* WorkStore.save, one action per file-system call.                        *)

\* entry of save(): `serializable` is built, the parent directory exists;
\* the first file-system step depends on path.exists() (line 245)
EnterSave(then) ==
    /\ pc' = IF Exists(primary) THEN "bak_unlink" ELSE "open"
    /\ prevPrimary' = primary
    /\ saveStatus' = "running"
    /\ failedAt' = ""
    /\ after' = then

\* save() returns or raises: the handler that called it goes on
\*   on_register / on_punch_in: the candidates and last_location are updated
\*     only when save() returned;
\*   closeEvent: the exception is swallowed, the process ends and the
\*     application is started again.
LeaveSave(status, step) ==
    /\ saveStatus' = status
    /\ failedAt' = step
    /\ pc' = IF after.kind = "exit" THEN "exited" ELSE "idle"
    /\ lockHeld' = FALSE
    /\ after' = NoAfter
    /\ cfg' = IF status = "ok" /\ after.kind = "candidates"
              THEN [update_candidates(cfg, after.location)
                        EXCEPT !.last_location = after.location]
              ELSE cfg
    /\ UNCHANGED <<data, loadStatus, loaded>>

\* line 247-248: if bak.exists(): bak.unlink()
BakUnlink ==
    /\ pc = "bak_unlink"
    /\ backup' = Absent
    /\ pc' = "bak_replace"
    /\ UNCHANGED <<data, cfg, primary, tmp, lockHeld, after, prevPrimary, saveStatus,
                   failedAt, loadStatus, loaded, lastOp, ops, args, result, launch, listener, pending>>

\* bak.unlink() raises: the except clause of line 250 skips the move
BakUnlinkFails ==
    /\ pc = "bak_unlink"
    /\ Exists(backup)
    /\ pc' = "open"
    /\ UNCHANGED <<data, cfg, primary, backup, tmp, lockHeld, after, prevPrimary,
                   saveStatus, failedAt, loadStatus, loaded, lastOp, ops, args, result, launch, listener, pending>>

\* line 249: self.path.replace(bak)
BakReplace ==
    /\ pc = "bak_replace"
    /\ backup' = primary
    /\ primary' = Absent
    /\ pc' = "open"
    /\ UNCHANGED <<data, cfg, tmp, lockHeld, after, prevPrimary, saveStatus, failedAt,
                   loadStatus, loaded, lastOp, ops, args, result, launch, listener, pending>>

\* self.path.replace(bak) raises and no except clause catches it: save() raises
BakReplaceFails_Raises ==
    /\ pc = "bak_replace"
    /\ LeaveSave("raised", "backup")
    /\ UNCHANGED <<primary, backup, tmp, prevPrimary, lastOp, ops, args, result, launch, listener, pending>>

\* self.path.replace(bak) raises: swallowed by line 250
BakReplaceFails ==
    /\ pc = "bak_replace"
    /\ pc' = "open"
    /\ UNCHANGED <<data, cfg, primary, backup, tmp, lockHeld, after, prevPrimary,
                   saveStatus, failedAt, loadStatus, loaded, lastOp, ops, args, result, launch, listener, pending>>

\* line 253: open(tmp, "w") creates or truncates the temporary file
OpenTmp ==
    /\ pc = "open"
    /\ tmp' = Corrupt
    /\ pc' = "lock"
    /\ UNCHANGED <<data, cfg, primary, backup, lockHeld, after, prevPrimary,
                   saveStatus, failedAt, loadStatus, loaded, lastOp, ops, args, result, launch, listener, pending>>

\* open(tmp, "w") raises: save() raises
OpenTmpFails ==
    /\ pc = "open"
    /\ LeaveSave("raised", "open")
    /\ UNCHANGED <<primary, backup, tmp, prevPrimary, lastOp, ops, args, result, launch, listener, pending>>

\* lines 254-258: portalocker.lock(f, LOCK_EX) when portalocker was imported;
\* without portalocker, or when lock() raises, save() goes on without the lock
Lock ==
    /\ pc = "lock"
    /\ lockHeld' \in BOOLEAN
    /\ pc' = "dump"
    /\ UNCHANGED <<data, cfg, primary, backup, tmp, after, prevPrimary, saveStatus,
                   failedAt, loadStatus, loaded, lastOp, ops, args, result, launch, listener, pending>>

\* line 259: json.dump(serializable, f)
Dump ==
    /\ pc = "dump"
    /\ tmp' = JsonFile(Serialize(data))
    /\ pc' = "fsync"
    /\ UNCHANGED <<data, cfg, primary, backup, lockHeld, after, prevPrimary,
                   saveStatus, failedAt, loadStatus, loaded, lastOp, ops, args, result, launch, listener, pending>>

\* json.dump raises part-way: the with statement closes the file, save() raises
DumpFails ==
    /\ pc = "dump"
    /\ LeaveSave("raised", "dump")
    /\ UNCHANGED <<primary, backup, tmp, prevPrimary, lastOp, ops, args, result, launch, listener, pending>>

\* line 260: f.flush(); os.fsync(f.fileno())
Fsync ==
    /\ pc = "fsync"
    /\ pc' = "unlock"
    /\ UNCHANGED <<data, cfg, primary, backup, tmp, lockHeld, after, prevPrimary,
                   saveStatus, failedAt, loadStatus, loaded, lastOp, ops, args, result, launch, listener, pending>>

FsyncFails ==
    /\ pc = "fsync"
    /\ LeaveSave("raised", "fsync")
    /\ UNCHANGED <<primary, backup, tmp, prevPrimary, lastOp, ops, args, result, launch, listener, pending>>

\* lines 261-265: portalocker.unlock(f), then the with statement closes f
Unlock ==
    /\ pc = "unlock"
    /\ lockHeld' = FALSE
    /\ pc' = "replace"
    /\ UNCHANGED <<data, cfg, primary, backup, tmp, after, prevPrimary, saveStatus,
                   failedAt, loadStatus, loaded, lastOp, ops, args, result, launch, listener, pending>>

\* line 266: os.replace(tmp, self.path)
Replace ==
    /\ pc = "replace"
    /\ primary' = tmp
    /\ tmp' = Absent
    /\ LeaveSave("ok", "")
    /\ UNCHANGED <<backup, prevPrimary, lastOp, ops, args, result, launch, listener, pending>>

ReplaceFails ==
    /\ pc = "replace"
    /\ LeaveSave("raised", "replace")
    /\ UNCHANGED <<primary, backup, tmp, prevPrimary, lastOp, ops, args, result, launch, listener, pending>>

SaveStep ==
    \/ BakUnlink \/ BakUnlinkFails \/ BakReplace \/ BakReplaceFails
    \/ OpenTmp \/ OpenTmpFails \/ Lock \/ Dump \/ DumpFails
    \/ Fsync \/ FsyncFails \/ Unlock \/ Replace \/ ReplaceFails

\* the process is killed inside save() and the application is started again
CrashRestart ==
    /\ pc \notin {"idle", "exited"}
    /\ StartProcess
    /\ lastOp' = NoOp("start")
    /\ saveStatus' = "killed"
    /\ UNCHANGED <<primary, backup, tmp, prevPrimary, failedAt, ops, args, result, launch, listener, pending>>

\* the application is started again after closeEvent
Start ==
    /\ pc = "exited"
    /\ StartProcess
    /\ lastOp' = NoOp("start")
    /\ UNCHANGED <<primary, backup, tmp, prevPrimary, saveStatus, failedAt, ops, args,
                   result, launch, listener, pending>>

-----------------------------------------------------------------------------
(* Handlers of MainWindow.                                                 *)

\* on_register, lines 576-591: the record built from the four time widgets
RegisterRecord(tin, location, project, memo, rounding) ==
    LET n == normalize_monotonic(to_dt(tin[1]), to_dt(tin[2]), to_dt(tin[3]), to_dt(tin[4]))
        duration == round_duration(calc_duration(n[1], n[2], n[3], n[4]), rounding)
    IN DayRecord(strftime_hm(n[1]), strftime_hm(n[2]), strftime_hm(n[3]),
                 strftime_hm(n[4]), location, duration, project, memo)

\* on_register with a location; the rounding step is self.round_min.value()
OnRegister ==
    /\ pc = "idle"
    /\ ops < MaxOps
    /\ \E dk \in DateKeys, form \in Forms, tin \in ManualInputs, rounding \in RoundSteps :
          /\ form.location # ""
          /\ data' = Put(data, dk, RegisterRecord(tin, form.location, form.project,
                                                  form.memo, rounding))
          /\ lastOp' = [NoOp("register") EXCEPT !.date = dk, !.rounding = rounding,
                                                !.done = TRUE]
          /\ EnterSave([kind |-> "candidates", location |-> form.location])
    /\ ops' = ops + 1
    /\ UNCHANGED <<cfg, primary, backup, tmp, lockHeld, loadStatus, loaded, args, result, launch, listener, pending>>

\* on_register, line 574-575: no location, a warning and nothing else
OnRegisterNoLocation ==
    /\ pc = "idle"
    /\ ops < MaxOps
    /\ \E form \in Forms : form.location = ""
    /\ lastOp' = NoOp("register")
    /\ ops' = ops + 1
    /\ UNCHANGED <<data, cfg, primary, backup, tmp, pc, lockHeld, after, prevPrimary,
                   saveStatus, failedAt, loadStatus, loaded, args, result, launch, listener, pending>>

\* on_punch_in, lines 613-615: the location the punch is recorded with
PunchLocation(text, c) ==
    LET location == IF text # "" THEN text ELSE c.last_location
    IN IF location = "" /\ c.locations # <<>> THEN c.locations[1] ELSE location

\* on_punch_in, line 619: no record for the date yet
PunchInRecord(now, location, project, memo) ==
    DayRecord(strftime_hm(now), Unset, Unset, Unset, location, 0, project, memo)

\* the reset of lines 622-623 without `rec.end = ""`
PunchInUpdate_KeepEnd(rec, now, location, project, memo) ==
    [rec EXCEPT !.start = strftime_hm(now), !.break_start = Unset,
                !.break_end = Unset, !.worked_minutes = 0, !.location = location,
                !.project = project, !.memo = memo]

\* on_punch_in, lines 622-623: the record of the date is reset in place
PunchInUpdate(rec, now, location, project, memo) ==
    [rec EXCEPT !.start = strftime_hm(now), !.end = Unset, !.break_start = Unset,
                !.break_end = Unset, !.worked_minutes = 0, !.location = location,
                !.project = project, !.memo = memo]

OnPunchIn ==
    /\ pc = "idle"
    /\ ops < MaxOps
    /\ \E now \in Nows, form \in Forms :
          LET location == PunchLocation(form.location, cfg)
              date_key == DateKeyOf(now)
          IN /\ data' = Put(data, date_key,
                            IF date_key \in DOMAIN data
                            THEN PunchInUpdate(data[date_key], now, location,
                                               form.project, form.memo)
                            ELSE PunchInRecord(now, location, form.project, form.memo))
             /\ lastOp' = [NoOp("punch_in") EXCEPT !.date = date_key, !.now = now,
                                                   !.done = TRUE,
                                                   !.existed = KindOf(data, date_key)]
             /\ EnterSave([kind |-> "candidates", location |-> location])
    /\ ops' = ops + 1
    /\ UNCHANGED <<cfg, primary, backup, tmp, lockHeld, loadStatus, loaded, args, result, launch, listener, pending>>

\* the keys of a map in the order of sorted()
RECURSIVE SortedKeys(_)
SortedKeys(S) ==
    IF S = {} THEN <<>>
    ELSE LET m == CHOOSE x \in S : \A y \in S : x = y \/ DateLess(x, y)
         IN <<m>> \o SortedKeys(S \ {m})

Reverse(seq) == [i \in 1..Len(seq) |-> seq[Len(seq) + 1 - i]]

\* the loop of _find_open_record_date over keys; <<>> stands for None
RECURSIVE FindOpenIn(_, _)
FindOpenIn(keys, map) ==
    IF keys = <<>> THEN <<>>
    ELSE IF map[Head(keys)].start # Unset /\ map[Head(keys)].end = Unset
         THEN Head(keys)
         ELSE FindOpenIn(Tail(keys), map)

\* the loop of line 605 without reverse=True
find_open_record_date_Ascending(map) == FindOpenIn(SortedKeys(DOMAIN map), map)

find_open_record_date(map) == FindOpenIn(Reverse(SortedKeys(DOMAIN map)), map)

\* on_punch_out, lines 640-649: the record after the punch
PunchOutRecord(open_date, rec, now, c) ==
    LET t_start == dt_on(open_date, rec.start)
        t_end == IF now < t_start THEN t_start ELSE now
        d1 == (t_end - t_start) - c.fixed_break_minutes
        d2 == IF d1 < 0 THEN 0 ELSE d1
        duration == round_duration(d2, c.rounding_minutes)
    IN [rec EXCEPT !.end = strftime_hm(now), !.worked_minutes = duration]

\* on_punch_out with an open record.  After save() the handler calls
\* self.update_preview(), which MainWindow does not define: it ends there.
OnPunchOut ==
    /\ pc = "idle"
    /\ ops < MaxOps
    /\ find_open_record_date(data) # <<>>
    /\ \E now \in Nows :
          LET open_date == find_open_record_date(data)
          IN /\ data' = Put(data, open_date,
                            PunchOutRecord(open_date, data[open_date], now, cfg))
             /\ lastOp' = [NoOp("punch_out") EXCEPT !.date = open_date, !.now = now,
                                                    !.rounding = cfg.rounding_minutes,
                                                    !.done = TRUE]
    /\ EnterSave(NoAfter)
    /\ ops' = ops + 1
    /\ UNCHANGED <<cfg, primary, backup, tmp, lockHeld, loadStatus, loaded, args, result, launch, listener, pending>>

\* on_punch_out, lines 635-636: no open record, a warning and nothing else
OnPunchOutNoOpen ==
    /\ pc = "idle"
    /\ ops < MaxOps
    /\ find_open_record_date(data) = <<>>
    /\ lastOp' = NoOp("punch_out")
    /\ ops' = ops + 1
    /\ UNCHANGED <<data, cfg, primary, backup, tmp, pc, lockHeld, after, prevPrimary,
                   saveStatus, failedAt, loadStatus, loaded, args, result, launch, listener, pending>>

\* recalc_month, lines 905-928: the body of the try statement for one record.
\* outcome "skip" is the `skipped += 1; continue` of line 917 and of the
\* except clause; outcome "ok" carries new_minutes.
RecalcRecord(dk, rec, c) ==
    IF IsManual(rec)
    THEN IF Parses(rec.start) /\ Parses(rec.break_start) /\ Parses(rec.break_end)
            /\ Parses(rec.end)
         THEN LET n == normalize_monotonic(to_dt(rec.start), to_dt(rec.break_start),
                                           to_dt(rec.break_end), to_dt(rec.end))
                  dur == calc_duration(n[1], n[2], n[3], n[4])
              IN [outcome |-> "ok",
                  minutes |-> round_duration(dur, c.rounding_minutes)]
         ELSE [outcome |-> "skip", minutes |-> 0]
    ELSE IF rec.start = Unset \/ rec.end = Unset
         THEN [outcome |-> "skip", minutes |-> 0]
         ELSE LET t_start_real == dt_on(dk, rec.start)
                  t_end == dt_on(dk, rec.end)
                  t_end_real == IF t_end < t_start_real THEN t_end + DayMinutes ELSE t_end
                  d1 == (t_end_real - t_start_real) - c.fixed_break_minutes
                  dur == IF d1 < 0 THEN 0 ELSE d1
              IN [outcome |-> "ok",
                  minutes |-> round_duration(dur, c.rounding_minutes)]

\* the loop with `changed += 1` outside the comparison of line 929
RECURSIVE RecalcLoop_CountAll(_, _, _, _)
RecalcLoop_CountAll(keys, st, c, ym) ==
    IF keys = <<>> THEN st
    ELSE LET dk == Head(keys)
             r == RecalcRecord(dk, st.map[dk], c)
         IN IF ~HasPrefix(dk, ym[1], ym[2])
            THEN RecalcLoop_CountAll(Tail(keys), st, c, ym)
            ELSE IF r.outcome = "skip"
            THEN RecalcLoop_CountAll(Tail(keys), [st EXCEPT !.skipped = @ + 1], c, ym)
            ELSE RecalcLoop_CountAll(Tail(keys),
                                     [st EXCEPT !.map[dk].worked_minutes = r.minutes,
                                                !.changed = @ + 1], c, ym)

\* the loop with the try statement around it instead of inside it: the first
\* skipped record ends the batch
RECURSIVE RecalcLoop_AbortOnSkip(_, _, _, _)
RecalcLoop_AbortOnSkip(keys, st, c, ym) ==
    IF keys = <<>> THEN st
    ELSE LET dk == Head(keys)
             rec == st.map[dk]
             r == RecalcRecord(dk, rec, c)
         IN IF ~HasPrefix(dk, ym[1], ym[2])
            THEN RecalcLoop_AbortOnSkip(Tail(keys), st, c, ym)
            ELSE IF r.outcome = "skip"
            THEN [st EXCEPT !.skipped = @ + 1]
            ELSE IF r.minutes # rec.worked_minutes
            THEN RecalcLoop_AbortOnSkip(Tail(keys),
                                        [st EXCEPT !.map[dk].worked_minutes = r.minutes,
                                                   !.changed = @ + 1], c, ym)
            ELSE RecalcLoop_AbortOnSkip(Tail(keys), st, c, ym)

\* recalc_month, lines 901-933: the loop over sorted(self.store.data.items())
RECURSIVE RecalcLoop(_, _, _, _)
RecalcLoop(keys, st, c, ym) ==
    IF keys = <<>> THEN st
    ELSE LET dk == Head(keys)
             rec == st.map[dk]
             r == RecalcRecord(dk, rec, c)
         IN IF ~HasPrefix(dk, ym[1], ym[2])
            THEN RecalcLoop(Tail(keys), st, c, ym)
            ELSE IF r.outcome = "skip"
            THEN RecalcLoop(Tail(keys), [st EXCEPT !.skipped = @ + 1], c, ym)
            ELSE IF r.minutes # rec.worked_minutes
            THEN RecalcLoop(Tail(keys),
                            [st EXCEPT !.map[dk].worked_minutes = r.minutes,
                                       !.changed = @ + 1], c, ym)
            ELSE RecalcLoop(Tail(keys), st, c, ym)

\* recalc_month up to line 934: the map, `changed` and `skipped`
recalc_month(map, c, ym) ==
    RecalcLoop(SortedKeys(DOMAIN map), [map |-> map, changed |-> 0, skipped |-> 0], c, ym)

\* recalc_month with changed > 0: save() is called (lines 935-936)
RecalcMonthChanged ==
    /\ pc = "idle"
    /\ ops < MaxOps
    /\ \E ym \in Months :
          LET r == recalc_month(data, cfg, ym)
          IN /\ r.changed > 0
             /\ data' = r.map
             /\ lastOp' = [NoOp("recalc") EXCEPT !.month = ym, !.changed = r.changed,
                                                 !.skipped = r.skipped,
                                                 !.rounding = cfg.rounding_minutes,
                                                 !.done = TRUE]
    /\ EnterSave(NoAfter)
    /\ ops' = ops + 1
    /\ UNCHANGED <<cfg, primary, backup, tmp, lockHeld, loadStatus, loaded, args, result, launch, listener, pending>>

\* recalc_month with `self.store.save()` outside the `if changed:`
RecalcMonthUnchanged_Saves ==
    /\ pc = "idle"
    /\ ops < MaxOps
    /\ \E ym \in Months :
          LET r == recalc_month(data, cfg, ym)
          IN /\ r.changed = 0
             /\ data' = r.map
             /\ lastOp' = [NoOp("recalc") EXCEPT !.month = ym, !.changed = r.changed,
                                                 !.skipped = r.skipped,
                                                 !.rounding = cfg.rounding_minutes,
                                                 !.done = TRUE]
    /\ EnterSave(NoAfter)
    /\ ops' = ops + 1
    /\ UNCHANGED <<cfg, primary, backup, tmp, lockHeld, loadStatus, loaded, args, result, launch, listener, pending>>

\* recalc_month with changed = 0: no save()
RecalcMonthUnchanged ==
    /\ pc = "idle"
    /\ ops < MaxOps
    /\ \E ym \in Months :
          LET r == recalc_month(data, cfg, ym)
          IN /\ r.changed = 0
             /\ data' = r.map
             /\ lastOp' = [NoOp("recalc") EXCEPT !.month = ym, !.changed = r.changed,
                                                 !.skipped = r.skipped,
                                                 !.rounding = cfg.rounding_minutes,
                                                 !.done = TRUE]
    /\ ops' = ops + 1
    /\ UNCHANGED <<cfg, primary, backup, tmp, pc, lockHeld, after, prevPrimary,
                   saveStatus, failedAt, loadStatus, loaded, args, result, launch, listener, pending>>

\* on_save_clicked: the spin boxes are copied into cfg, then store.save()
OnSaveClicked ==
    /\ pc = "idle"
    /\ ops < MaxOps
    /\ \E rounding \in RoundSteps, break \in BreakMinutes :
          /\ cfg' = [cfg EXCEPT !.rounding_minutes = rounding,
                                !.fixed_break_minutes = break]
          /\ lastOp' = [NoOp("save_clicked") EXCEPT !.rounding = rounding, !.done = TRUE]
    /\ EnterSave(NoAfter)
    /\ ops' = ops + 1
    /\ UNCHANGED <<data, primary, backup, tmp, lockHeld, loadStatus, loaded, args, result, launch, listener, pending>>

\* closeEvent: store.save() inside try/except, then the window closes
CloseEvent ==
    /\ pc = "idle"
    /\ ops < MaxOps
    /\ lastOp' = [NoOp("close") EXCEPT !.done = TRUE]
    /\ EnterSave([kind |-> "exit", location |-> ""])
    /\ ops' = ops + 1
    /\ UNCHANGED <<data, cfg, primary, backup, tmp, lockHeld, loadStatus, loaded, args, result, launch, listener, pending>>

Handler ==
    \/ OnRegister \/ OnRegisterNoLocation \/ OnPunchIn \/ OnPunchOut
    \/ OnPunchOutNoOpen \/ RecalcMonthChanged \/ RecalcMonthUnchanged
    \/ OnSaveClicked \/ CloseEvent

Next == Handler \/ SaveStep \/ CrashRestart \/ Start

Spec == Init /\ [][Next]_vars

-----------------------------------------------------------------------------
(* normalize_monotonic on its own: every 4-tuple of a grid of times of day. *)

TimesOfDay == {<<h, mi>> : h \in {0, 9, 10, 23}, mi \in {0, 1}}

InitPure ==
    /\ args \in TimesOfDay \X TimesOfDay \X TimesOfDay \X TimesOfDay
    /\ result = <<>>
    /\ data = EmptyMap
    /\ cfg \in Configs
    /\ primary = Absent /\ backup = Absent /\ tmp = Absent
    /\ pc = "idle"
    /\ lockHeld = FALSE
    /\ after = NoAfter
    /\ prevPrimary = Absent
    /\ saveStatus = "none"
    /\ failedAt = ""
    /\ loadStatus = "empty"
    /\ loaded = EmptyMap
    /\ lastOp = NoOp("start")
    /\ OneRunning
    /\ ops = 0

\* normalize_monotonic applied to the four times placed on the reference date
Normalize ==
    /\ result = <<>>
    /\ result' = normalize_monotonic(to_dt(args[1]), to_dt(args[2]), to_dt(args[3]),
                                     to_dt(args[4]))
    /\ UNCHANGED <<data, cfg, primary, backup, tmp, pc, lockHeld, after, prevPrimary,
                   saveStatus, failedAt, loadStatus, loaded, lastOp, ops, args, launch, listener, pending>>

SpecNormalize == InitPure /\ [][Normalize]_vars

-----------------------------------------------------------------------------
(* Properties.                                                             *)

InSave == pc \notin {"idle", "exited"}

\* the steps that start a process: the ones that run load()
IsStartStep == pc # "idle" /\ pc' = "idle" /\ lastOp'.op = "start"

\* C1: at every point inside save() the primary path holds the complete
\* previous content or the complete new content; it is never missing or
\* partial while a save is in progress.
C1_PrimaryOldOrNew ==
    InSave => primary \in {prevPrimary, JsonFile(Serialize(data))}

\* C2: when save() raises at a step before the final replace (opening the
\* temporary file, json.dump, flush/fsync), the primary file that existed
\* before the call is still at the primary path, unchanged.
C2_FailedSaveKeepsPrimary ==
    (saveStatus = "raised" /\ failedAt \in {"open", "dump", "fsync"})
        => primary = prevPrimary

\* C3: normalize_monotonic returns a non-decreasing sequence for every
\* 4-tuple of times of day placed on the same reference date.
C3_NormalizeNonDecreasing ==
    result # <<>> =>
        (result[1] <= result[2] /\ result[2] <= result[3] /\ result[3] <= result[4])

\* C4: after any sequence of registrations, punch-ins, punch-outs and month
\* recalculations every record of the store has worked_minutes >= 0.
C4_WorkedNonNegative ==
    \A dk \in DOMAIN data : data[dk].worked_minutes >= 0

\* the records load() is to return for a state of the two files, as the claim
\* words it
ExpectedLoad(prim, bak) ==
    IF prim.kind = "json" THEN parse_text(prim)
    ELSE IF bak.kind = "json" THEN parse_text(bak)
    ELSE EmptyMap

\* C5: load() never raises; it returns the primary's records when the primary
\* exists and parses, otherwise the backup's records exactly when the backup
\* exists and parses, otherwise an empty map.
C5_LoadFallback ==
    [][IsStartStep =>
          /\ loadStatus' # "raised"
          /\ data' = ExpectedLoad(primary, backup)
          /\ (loadStatus' = "backup") = (primary.kind # "json" /\ backup.kind = "json")
          /\ (loadStatus' = "empty") = (primary.kind # "json" /\ backup.kind # "json")]_vars

\* a process started after a kill inside save() found an unusable primary
\* and took the backup
C5_Witness ==
    /\ ops > 0
    /\ lastOp.op = "start"
    /\ loadStatus = "backup"
    /\ primary.kind # "json"
    /\ data = parse_text(backup)
    /\ DOMAIN data # {}


\* C6: round trip: after a successful save(), load() returns a map with the
\* same date keys and, for each key, identical fields.
C6_RoundTrip ==
    (saveStatus = "ok" /\ pc = "idle")
        => load(primary, backup) = [status |-> "primary", map |-> data]

\* a save of three records, with and without project and memo, has returned
C6_Witness ==
    /\ saveStatus = "ok" /\ pc = "idle"
    /\ lastOp.done /\ lastOp.op \in {"register", "punch_in", "punch_out", "recalc"}
    /\ Cardinality(DOMAIN data) = 3
    /\ \E dk \in DOMAIN data : data[dk].memo # "" /\ data[dk].project = ""
    /\ \E dk \in DOMAIN data : data[dk].project # "" /\ data[dk].end # Unset
    /\ primary = JsonFile(Serialize(data))

IsRecalcStep == ops' = ops + 1 /\ lastOp'.op = "recalc"

\* C7: recalc_month is idempotent: run again for the same month with the
\* same rounding step and fixed break, it reports changed = 0 and leaves
\* every record unchanged.
C7_RecalcIdempotent ==
    [][IsRecalcStep =>
          /\ recalc_month(data', cfg', lastOp'.month).changed = 0
          /\ recalc_month(data', cfg', lastOp'.month).map = data'
          /\ (lastOp.op = "recalc" /\ lastOp.month = lastOp'.month)
                => (lastOp'.changed = 0 /\ data' = data)]_vars

\* a run of recalc_month has changed a record; the store is as the second
\* run finds it
C7_Witness ==
    /\ lastOp.op = "recalc"
    /\ lastOp.changed > 0
    /\ \E dk \in DOMAIN data : HasPrefix(dk, lastOp.month[1], lastOp.month[2])
                               /\ IsManual(data[dk]) /\ data[dk].worked_minutes > 0

\* the records of a month that the claim says are skipped: punch-derived with
\* start or end unset, or with a needed time field that does not parse
SkippedByClaim(map, ym) ==
    {dk \in DOMAIN map :
        /\ HasPrefix(dk, ym[1], ym[2])
        /\ \/ ~IsManual(map[dk]) /\ (map[dk].start = Unset \/ map[dk].end = Unset)
           \/ IsManual(map[dk]) /\ (~Parses(map[dk].start) \/ ~Parses(map[dk].end))}

Restrict(map, keys) == [dk \in keys |-> map[dk]]

\* C8: fault isolation in recalc_month: each such record is counted as
\* skipped exactly once and keeps its worked_minutes; every other record of
\* the month is recomputed and counted as if the skipped records were absent.
C8_FaultIsolation ==
    [][IsRecalcStep =>
          LET ym == lastOp'.month
              skip == SkippedByClaim(data, ym)
              others == recalc_month(Restrict(data, DOMAIN data \ skip), cfg, ym)
          IN /\ lastOp'.skipped = Cardinality(skip)
             /\ lastOp'.changed = others.changed
             /\ others.skipped = 0
             /\ DOMAIN data' = DOMAIN data
             /\ \A dk \in skip : data'[dk] = data[dk]
             /\ \A dk \in DOMAIN data \ skip : data'[dk] = others.map[dk]]_vars

\* a run that skipped a record and changed a later one of the same month
C8_Witness ==
    /\ lastOp.op = "recalc"
    /\ lastOp.skipped >= 1
    /\ lastOp.changed >= 1
    /\ \E a, b \in DOMAIN data :
          /\ DateLess(a, b)
          /\ a \in SkippedByClaim(data, lastOp.month)
          /\ HasPrefix(b, lastOp.month[1], lastOp.month[2])
          /\ b \notin SkippedByClaim(data, lastOp.month)

IsPunchOutStep == ops' = ops + 1 /\ lastOp'.op = "punch_out"

\* the records whose start is set and whose end is unset
OpenRecords(map) == {dk \in DOMAIN map : map[dk].start # Unset /\ map[dk].end = Unset}

\* C9: punch-out acts on the record with the greatest date key among those
\* whose start is set and end is unset: it sets its end and worked_minutes
\* and leaves every other record unchanged; when there is none it modifies
\* no record and does not save.
C9_PunchOutLatestOpen ==
    [][IsPunchOutStep =>
          IF OpenRecords(data) = {}
          THEN /\ ~lastOp'.done
               /\ data' = data
               /\ pc' = "idle" /\ saveStatus' = saveStatus
               /\ UNCHANGED <<primary, backup, tmp>>
          ELSE LET g == CHOOSE dk \in OpenRecords(data) :
                            \A o \in OpenRecords(data) : o = dk \/ DateLess(o, dk)
               IN /\ lastOp'.done /\ lastOp'.date = g
                  /\ DOMAIN data' = DOMAIN data
                  /\ data'[g].end = strftime_hm(lastOp'.now)
                  /\ data'[g].end # Unset
                  /\ data'[g] = [data[g] EXCEPT !.end = data'[g].end,
                                                !.worked_minutes = data'[g].worked_minutes]
                  /\ \A dk \in DOMAIN data \ {g} : data'[dk] = data[dk]
                  /\ saveStatus' = "running"]_vars

\* a punch-out that closed the later of two open records
C9_Witness ==
    /\ lastOp.op = "punch_out" /\ lastOp.done
    /\ data[lastOp.date].end # Unset
    /\ \E dk \in OpenRecords(data) : DateLess(dk, lastOp.date)

IsPunchInStep == ops' = ops + 1 /\ lastOp'.op = "punch_in"

\* C10: after punch-in at time now, the record of now's date exists with
\* start = HH:MM of now and with end, break_start and break_end empty, whether
\* the date had no record, a manual record or a punched record; the records
\* of the other dates are unchanged.
C10_PunchInOpensRecord ==
    [][IsPunchInStep =>
          LET dk == DateKeyOf(lastOp'.now)
          IN /\ DOMAIN data' = DOMAIN data \cup {dk}
             /\ data'[dk].start = strftime_hm(lastOp'.now)
             /\ data'[dk].start # Unset
             /\ data'[dk].end = Unset
             /\ data'[dk].break_start = Unset
             /\ data'[dk].break_end = Unset
             /\ dk \in OpenRecords(data') /\ ~IsManual(data'[dk])
             /\ \A o \in DOMAIN data \ {dk} : data'[o] = data[o]]_vars

\* a punch-in on a date that held a manual record with an end
C10_Witness ==
    /\ lastOp.op = "punch_in"
    /\ lastOp.existed = "manual"
    /\ lastOp.date \in OpenRecords(data)

-----------------------------------------------------------------------------
(* The lock of save().                                                     *)

\* C11: when portalocker is available, the exclusive lock taken by save() is
\* held until the atomic replace of the primary has been done: once acquired
\* it is not released while the save is still in progress, so the steps of two
\* processes saving the same file cannot interleave.
C11_LockHeldUntilReplaced ==
    [][(lockHeld /\ ~lockHeld') => ~InSave']_vars

-----------------------------------------------------------------------------
(* What load() hands to its caller.                                        *)

\* C12: the value load() returns (the map, which is all WorkStore.__init__
\* receives) tells the three outcomes apart: a state of the two files that
\* makes load() return from another branch than the one just taken
\* (primary / backup / empty) does not yield the same returned value.
C12_LoadOutcomeObservable ==
    (lastOp.op = "start" /\ pc = "idle") =>
        \A files \in InitFiles :
            load(files[1], files[2]).status # loadStatus
                => load(files[1], files[2]).map # data

-----------------------------------------------------------------------------
(* on_register's computation on its own: every 4-tuple of a grid of widget  *)
(* times, each rounding step.                                              *)

RegisterTimes == {<<h, mi>> : h \in {6, 9, 12, 13, 18, 22, 23}, mi \in {0, 30}}

\* a process with no save in progress, whatever its store holds
Quiescent ==
    /\ cfg = [rounding_minutes |-> 1, fixed_break_minutes |-> 60,
              last_location |-> "", locations |-> <<>>]
    /\ primary = Absent /\ backup = Absent /\ tmp = Absent
    /\ pc = "idle"
    /\ lockHeld = FALSE
    /\ after = NoAfter
    /\ prevPrimary = Absent
    /\ saveStatus = "none"
    /\ failedAt = ""
    /\ loadStatus = "empty"
    /\ loaded = EmptyMap
    /\ lastOp = NoOp("start")
    /\ ops = 0

InitRegister ==
    /\ data = EmptyMap
    /\ args \in RegisterTimes \X RegisterTimes \X RegisterTimes \X RegisterTimes
    /\ result = <<>>
    /\ Quiescent
    /\ OneRunning

\* lines 578-591: the normalized times (line 583) and the record built
Register ==
    /\ result = <<>>
    /\ \E rounding \in RoundSteps :
          result' = [rounding |-> rounding,
                     n |-> normalize_monotonic(to_dt(args[1]), to_dt(args[2]),
                                               to_dt(args[3]), to_dt(args[4])),
                     rec |-> RegisterRecord(args, "A", "P", "", rounding)]
    /\ UNCHANGED <<data, cfg, primary, backup, tmp, pc, lockHeld, after, prevPrimary,
                   saveStatus, failedAt, loadStatus, loaded, lastOp, ops, args, launch, listener, pending>>

SpecRegister == InitRegister /\ [][Register]_vars

\* C13: manual-entry duration: with no rounding (step 1) the registered
\* worked_minutes equal (bstart' - start') + (end' - bend'), each primed time
\* being the widget time pushed one day when it is earlier than the primed time
\* before it; 09:00/12:00/13:00/18:00 gives 480 and 22:00/23:00/23:30/06:00
\* gives 450 with end exactly one day ahead.
C13_ManualDuration ==
    (result # <<>> /\ result.rounding = 1) =>
        LET s == args[1][1] * 60 + args[1][2]
            b == args[2][1] * 60 + args[2][2]
            e == args[3][1] * 60 + args[3][2]
            f == args[4][1] * 60 + args[4][2]
            b1 == IF b < s THEN b + 1440 ELSE b
            e1 == IF e < b1 THEN e + 1440 ELSE e
            f1 == IF f < e1 THEN f + 1440 ELSE f
        IN /\ result.rec.worked_minutes = (b1 - s) + (f1 - e1)
           /\ result.n = <<s, b1, e1, f1>>
           /\ args = << <<9, 0>>, <<12, 0>>, <<13, 0>>, <<18, 0>> >>
                 => result.rec.worked_minutes = 480
           /\ args = << <<22, 0>>, <<23, 0>>, <<23, 30>>, <<6, 0>> >>
                 => /\ result.rec.worked_minutes = 450
                    /\ result.n[4] = 6 * 60 + 1440
                    /\ result.rec.end = <<6, 0>>

\* the night shift 22:00/23:00/23:30/06:00 has been registered without rounding
C13_Witness ==
    /\ result # <<>>
    /\ args = << <<22, 0>>, <<23, 0>>, <<23, 30>>, <<6, 0>> >>
    /\ result.rounding = 1
    /\ result.rec.worked_minutes = 450

-----------------------------------------------------------------------------
(* Punch-derived duration.                                                 *)

\* worked minutes of a closed punch-derived record by the rule of the claim,
\* from the record's own start and end, then rounded
PunchRuleMinutes(rec, c) ==
    LET s == rec.start[1] * 60 + rec.start[2]
        e == rec.end[1] * 60 + rec.end[2]
        elapsed == IF e < s THEN (e + 1440) - s ELSE e - s
        worked == IF elapsed - c.fixed_break_minutes < 0 THEN 0
                  ELSE elapsed - c.fixed_break_minutes
    IN round_duration(worked, c.rounding_minutes)

\* C14: punch-derived duration, in on_punch_out and in the punch branch of
\* recalc_month alike: elapsed = end - start with exactly one day added to end
\* when end < start, and worked minutes = max(0, elapsed - fixed_break_minutes)
\* (then rounded).
C14_PunchDerivedDuration ==
    [][/\ (IsPunchOutStep /\ lastOp'.done) =>
              data'[lastOp'.date].worked_minutes
                  = PunchRuleMinutes(data'[lastOp'.date], cfg)
       /\ IsRecalcStep =>
              \A dk \in DOMAIN data :
                  (/\ HasPrefix(dk, lastOp'.month[1], lastOp'.month[2])
                   /\ ~IsManual(data[dk])
                   /\ data[dk].start # Unset /\ data[dk].end # Unset)
                      => data'[dk].worked_minutes = PunchRuleMinutes(data[dk], cfg)]_vars

-----------------------------------------------------------------------------
(* round_duration on its own: a range of whole-minute durations, negative   *)
(* ones included, and steps from inside and outside the spin box's range.   *)

RoundTotals == (0 - 60) .. 540

RoundArgSteps == {0 - 1, 0, 1, 2, 7, 15, 60}

InitRound ==
    /\ data = EmptyMap
    /\ args \in RoundTotals \X RoundArgSteps
    /\ result = <<>>
    /\ Quiescent
    /\ OneRunning

\* round_duration(timedelta(minutes=args[1]), args[2]), in minutes
Round ==
    /\ result = <<>>
    /\ result' = <<round_duration(args[1], args[2])>>
    /\ UNCHANGED <<data, cfg, primary, backup, tmp, pc, lockHeld, after, prevPrimary,
                   saveStatus, failedAt, loadStatus, loaded, lastOp, ops, args, launch, listener, pending>>

SpecRound == InitRound /\ [][Round]_vars

\* C15: round_duration(total, step) is total when step <= 1; for step > 1 it
\* is floor((total + floor(step/2)) / step) * step: the multiple of step that
\* is within step/2 of total, the upper one on a tie; round_duration(485, 15)
\* is 480.
C15_RoundHalfUp ==
    result # <<>> =>
        LET total == args[1]
            step == args[2]
            r == result[1]
        IN /\ step <= 1 => r = total
           /\ step > 1 =>
                 /\ \E q \in (0 - 70) .. 280 :
                       /\ r = q * step
                       /\ q * step <= total + (step \div 2)
                       /\ total + (step \div 2) < (q + 1) * step
                 /\ 2 * (r - total) <= step
                 /\ 2 * (total - r) < step
           /\ (total = 485 /\ step = 15) => r = 480

\* 485 minutes have been rounded with step 15
C15_Witness ==
    /\ result = <<480>>
    /\ args = <<485, 15>>

-----------------------------------------------------------------------------
(* Aggregation: the totals of WorkStore and the row listing, on their own.  *)

\* stands for the literal the source groups records without a project under
UnsetProject == "(unset)"

NoTotals == [k \in {} |-> 0]

\* totals[key] = minutes, the earlier sum of the key dropped
Accumulate_Overwrite(totals, key, minutes) ==
    [k \in DOMAIN totals \cup {key} |-> IF k = key THEN minutes ELSE totals[k]]

\* totals[key] = totals.get(key, timedelta()) + rec.worked_time
Accumulate(totals, key, minutes) ==
    [k \in DOMAIN totals \cup {key} |->
        IF k = key THEN (IF key \in DOMAIN totals THEN totals[key] ELSE 0) + minutes
        ELSE totals[k]]

\* `rec.project or <the unset literal>` of lines 280, 300 and 758
ProjectKey(project) == IF project = "" THEN UnsetProject ELSE project

\* the loop of totals_by_location / monthly_totals_by_location over the keys
\* that pass the prefix test
RECURSIVE LocationLoop(_, _, _)
LocationLoop(keys, map, totals) ==
    IF keys = <<>> THEN totals
    ELSE IF map[Head(keys)].location = ""
         THEN LocationLoop(Tail(keys), map, totals)
         ELSE LocationLoop(Tail(keys), map,
                           Accumulate(totals, map[Head(keys)].location,
                                      map[Head(keys)].worked_minutes))

\* the loop of totals_by_project / monthly_totals_by_project
RECURSIVE ProjectLoop(_, _, _)
ProjectLoop(keys, map, totals) ==
    IF keys = <<>> THEN totals
    ELSE ProjectLoop(Tail(keys), map,
                     Accumulate(totals, ProjectKey(map[Head(keys)].project),
                                map[Head(keys)].worked_minutes))

\* the keys of the map whose date string starts with the prefix of the month
MonthKeys(map, year, month) ==
    SelectSeq(SortedKeys(DOMAIN map), LAMBDA dk : HasPrefix(dk, year, month))

totals_by_location(map) == LocationLoop(SortedKeys(DOMAIN map), map, NoTotals)

totals_by_project(map) == ProjectLoop(SortedKeys(DOMAIN map), map, NoTotals)

monthly_totals_by_location(map, year, month) ==
    LocationLoop(MonthKeys(map, year, month), map, NoTotals)

monthly_totals_by_project(map, year, month) ==
    ProjectLoop(MonthKeys(map, year, month), map, NoTotals)

\* the rows in the order the dict happens to hold them, here latest first
month_project_rows_Unsorted(map, year, month, project) ==
    LET keys == SelectSeq(Reverse(MonthKeys(map, year, month)),
                          LAMBDA dk : ProjectKey(map[dk].project) = ProjectKey(project))
    IN [i \in 1..Len(keys) |-> <<keys[i], map[keys[i]].worked_minutes>>]

\* _month_project_rows: the loop over sorted(self.store.data.items())
month_project_rows(map, year, month, project) ==
    LET keys == SelectSeq(MonthKeys(map, year, month),
                          LAMBDA dk : ProjectKey(map[dk].project) = ProjectKey(project))
    IN [i \in 1..Len(keys) |-> <<keys[i], map[keys[i]].worked_minutes>>]

\* the dates, and the records by location, project and minutes, of the stores
\* the aggregation is applied to
TotalsDates == {<<2025, 1, 9>>, <<2025, 1, 30>>, <<2025, 1, 31>>, <<2025, 2, 1>>}

TotalsRecords ==
    { DayRecord(<<9, 0>>, Unset, Unset, <<18, 0>>, f[1], f[3], f[2], "") :
        f \in { <<"A", "P", 60>>, <<"A", "", 485>>, <<"", "P", 60>>, <<"", "", 485>>,
                <<"B", "P", 485>>, <<"B", UnsetProject, 60>>,
                <<"A", UnsetProject, 485>>, <<"", UnsetProject, 60>> } }

\* the project names of the combo box of the month listing
ProjectChoices == {"", "P", UnsetProject}

NoResult == [op |-> "none", ym |-> <<>>, project |-> "", by_location |-> NoTotals,
             by_project |-> NoTotals, rows |-> <<>>]

InitTotals ==
    /\ \E keys \in SUBSET TotalsDates : data \in [keys -> TotalsRecords]
    /\ args = <<>>
    /\ result = NoResult
    /\ Quiescent
    /\ OneRunning

\* refresh_totals: the two all-time tables
RefreshTotals ==
    /\ result = NoResult
    /\ result' = [NoResult EXCEPT !.op = "totals",
                                  !.by_location = totals_by_location(data),
                                  !.by_project = totals_by_project(data)]
    /\ UNCHANGED <<data, cfg, primary, backup, tmp, pc, lockHeld, after, prevPrimary,
                   saveStatus, failedAt, loadStatus, loaded, lastOp, ops, args, launch, listener, pending>>

\* refresh_monthly: the two tables of the month of the combo boxes
RefreshMonthly ==
    /\ result = NoResult
    /\ \E ym \in Months :
          result' = [NoResult EXCEPT
                        !.op = "monthly", !.ym = ym,
                        !.by_location = monthly_totals_by_location(data, ym[1], ym[2]),
                        !.by_project = monthly_totals_by_project(data, ym[1], ym[2])]
    /\ UNCHANGED <<data, cfg, primary, backup, tmp, pc, lockHeld, after, prevPrimary,
                   saveStatus, failedAt, loadStatus, loaded, lastOp, ops, args, launch, listener, pending>>

\* the rows of a project and a month, as the exports ask for them
MonthProjectRows ==
    /\ result = NoResult
    /\ \E ym \in Months, project \in ProjectChoices :
          result' = [NoResult EXCEPT
                        !.op = "rows", !.ym = ym, !.project = project,
                        !.rows = month_project_rows(data, ym[1], ym[2], project)]
    /\ UNCHANGED <<data, cfg, primary, backup, tmp, pc, lockHeld, after, prevPrimary,
                   saveStatus, failedAt, loadStatus, loaded, lastOp, ops, args, launch, listener, pending>>

NextTotals == RefreshTotals \/ RefreshMonthly \/ MonthProjectRows

SpecTotals == InitTotals /\ [][NextTotals]_vars

\* sum of worked_minutes over a set of date keys
RECURSIVE SumMinutes(_, _)
SumMinutes(map, keys) ==
    IF keys = {} THEN 0
    ELSE LET k == CHOOSE x \in keys : TRUE
         IN map[k].worked_minutes + SumMinutes(map, keys \ {k})

\* sum of the values of a table of totals
RECURSIVE SumTotals(_, _)
SumTotals(totals, cats) ==
    IF cats = {} THEN 0
    ELSE LET c == CHOOSE x \in cats : TRUE
         IN totals[c] + SumTotals(totals, cats \ {c})

\* the date keys the tables of the last refresh range over
TableKeys ==
    IF result.op = "totals" THEN DOMAIN data
    ELSE {dk \in DOMAIN data : HasPrefix(dk, result.ym[1], result.ym[2])}

\* C16: category totals, all-time and monthly (the monthly ones over exactly
\* the records whose date key starts with YYYY-MM): by project every record
\* counts exactly once, an empty project under the unset sentinel, so the
\* project totals sum to the sum of worked_minutes; by location exactly the
\* records with a non-empty location count and there is no group for the
\* empty location.
C16_CategoryTotals ==
    result.op \in {"totals", "monthly"} =>
        LET projectOf(dk) == IF data[dk].project = "" THEN UnsetProject
                             ELSE data[dk].project
            located == {dk \in TableKeys : data[dk].location # ""}
        IN /\ DOMAIN result.by_project = {projectOf(dk) : dk \in TableKeys}
           /\ \A p \in DOMAIN result.by_project :
                 result.by_project[p]
                     = SumMinutes(data, {dk \in TableKeys : projectOf(dk) = p})
           /\ SumTotals(result.by_project, DOMAIN result.by_project)
                 = SumMinutes(data, TableKeys)
           /\ DOMAIN result.by_location = {data[dk].location : dk \in located}
           /\ "" \notin DOMAIN result.by_location
           /\ \A l \in DOMAIN result.by_location :
                 result.by_location[l]
                     = SumMinutes(data, {dk \in located : data[dk].location = l})
           /\ SumTotals(result.by_location, DOMAIN result.by_location)
                 = SumMinutes(data, located)

\* monthly tables of January over four records: a record of February is left
\* out, one record has no location, two share a location, one has no project
C16_Witness ==
    /\ result.op = "monthly" /\ result.ym = <<2025, 1>>
    /\ DOMAIN data = TotalsDates
    /\ \E dk \in TableKeys : data[dk].location = ""
    /\ \E dk \in TableKeys : data[dk].project = ""
    /\ \E l \in DOMAIN result.by_location :
          Cardinality({dk \in TableKeys : data[dk].location = l}) = 2
    /\ UnsetProject \in DOMAIN result.by_project
    /\ SumTotals(result.by_location, DOMAIN result.by_location)
          < SumMinutes(data, TableKeys)
    /\ SumMinutes(data, TableKeys) < SumMinutes(data, DOMAIN data)

\* C17: the row listing of a category and a month holds exactly one
\* (date, worked_minutes) row for each record whose date key has the prefix
\* YYYY-MM and whose project, empty read as the unset sentinel, is the requested
\* one read the same way; the rows are in strictly ascending date order.
C17_MonthRows ==
    result.op = "rows" =>
        LET rows == result.rows
            want == IF result.project = "" THEN UnsetProject ELSE result.project
            sel == {dk \in DOMAIN data :
                       /\ HasPrefix(dk, result.ym[1], result.ym[2])
                       /\ (IF data[dk].project = "" THEN UnsetProject
                           ELSE data[dk].project) = want}
        IN /\ Len(rows) = Cardinality(sel)
           /\ \A dk \in sel :
                 \E i \in 1..Len(rows) : rows[i] = <<dk, data[dk].worked_minutes>>
           /\ \A i \in 1..Len(rows) : rows[i][1] \in sel
           /\ \A i, j \in 1..Len(rows) : i < j => DateLess(rows[i][1], rows[j][1])

\* two rows of January listed for one project while a third record of January
\* has another project and a record of February has the same one
C17_Witness ==
    /\ result.op = "rows" /\ result.ym = <<2025, 1>> /\ result.project = "P"
    /\ Len(result.rows) = 2
    /\ DOMAIN data = TotalsDates
    /\ data[<<2025, 2, 1>>].project = "P"
    /\ DateLess(result.rows[1][1], result.rows[2][1])

-----------------------------------------------------------------------------
(* Persistence after a recalculation; the keys of the store.               *)

\* C18: recalc_month calls store.save() exactly once when the worked_minutes
\* of at least one record changed, and not at all, the files left as they
\* are, when changed = 0; changed is the number of records that differ.
C18_RecalcSavesIffChanged ==
    [][/\ IsRecalcStep =>
              /\ lastOp'.changed
                    = Cardinality({dk \in DOMAIN data : data'[dk] # data[dk]})
              /\ IF lastOp'.changed > 0
                 THEN /\ ~InSave /\ InSave'
                      /\ saveStatus' = "running"
                      /\ prevPrimary' = primary
                 ELSE /\ pc' = "idle"
                      /\ UNCHANGED <<primary, backup, tmp, saveStatus, failedAt>>
       /\ (lastOp.op = "recalc" /\ ops' = ops) => ~(~InSave /\ InSave')]_vars

\* a recalculation changed a record and its one save() has returned: the
\* primary file holds the recomputed store
C18_Witness ==
    /\ lastOp.op = "recalc"
    /\ lastOp.changed > 0
    /\ saveStatus = "ok" /\ pc = "idle"
    /\ primary = JsonFile(Serialize(data))
    /\ primary # prevPrimary

\* C19: no handler removes a date key: over every step of registration,
\* punch-in, punch-out, recalculation and save the date keys of the store only
\* grow, by at most the one key the handler wrote, and the store stays a map
\* with one record per date key.
C19_KeysOnlyGrow ==
    [][lastOp'.op # "start" =>
          /\ DOMAIN data \subseteq DOMAIN data'
          /\ Cardinality(DOMAIN data') <= Cardinality(DOMAIN data) + 1
          /\ (DOMAIN data' # DOMAIN data)
                => (lastOp'.op \in {"register", "punch_in"}
                    /\ DOMAIN data' = DOMAIN data \cup {lastOp'.date})]_vars

\* a punch-in on a date without a record added a fourth key to a store of
\* three and its save() has returned
C19_Witness ==
    /\ lastOp.op = "punch_in"
    /\ lastOp.existed = "none"
    /\ Cardinality(DOMAIN data) = 4
    /\ saveStatus = "ok"

-----------------------------------------------------------------------------
(* Order of the steps of save().                                           *)

\* C20: save() takes its steps in the documented order: the primary file is
\* moved to the backup slot only once the temporary file holds the complete,
\* flushed and fsynced new content, and the replace of the primary by the
\* temporary file is the last step.
C20_BackupMoveAfterTempWritten ==
    [][/\ (InSave /\ Exists(primary) /\ primary' = Absent /\ backup' = primary)
              => tmp = JsonFile(Serialize(data))
       /\ (InSave /\ primary' # primary /\ Exists(primary')) => ~InSave']_vars

-----------------------------------------------------------------------------
(* The best-effort steps of save().                                        *)

\* the positions of save() at its best-effort steps: the move of the primary
\* to the backup path, the lock and the unlock
AtBestEffortStep == pc \in {"bak_unlink", "bak_replace", "lock", "unlock"}

\* C21: the best-effort steps of save() are not fatal: whether the move of
\* the primary to the backup path fails or not, and whether the lock is
\* obtained or not, save() goes on to its next step, and when it returns the
\* primary path holds the complete new map.
C21_BestEffortNonFatal ==
    [][/\ (AtBestEffortStep /\ pc' # pc /\ lastOp'.op # "start") =>
              /\ InSave' /\ saveStatus' = "running" /\ failedAt' = ""
              /\ pc \in {"bak_unlink", "bak_replace"} =>
                    (pc' \in {"bak_replace", "open"}
                     /\ (primary' = primary \/ (primary' = Absent /\ backup' = primary)))
              /\ pc = "lock" => pc' = "dump"
              /\ pc = "unlock" => pc' = "replace"
       /\ (InSave /\ saveStatus' = "ok") =>
              (primary' = JsonFile(Serialize(data)) /\ data' = data /\ ~InSave')]_vars

\* a save() whose move of the existing primary to the backup path failed has
\* returned: the backup is not the old primary, the primary is the new map
C21_Witness ==
    /\ saveStatus = "ok" /\ pc = "idle"
    /\ lastOp.op \in {"register", "punch_in", "punch_out", "recalc"}
    /\ Exists(prevPrimary)
    /\ backup # prevPrimary
    /\ primary = JsonFile(Serialize(data))
    /\ primary # prevPrimary

-----------------------------------------------------------------------------
(* A process killed inside save(), and the load() of the next one.          *)

\* the steps in which the process is killed inside save() and started again
IsCrashStep == InSave /\ IsStartStep

\* C22: crash safety across save and load: when the process stops at any step
\* inside save(), the next load() returns the map the store held before the
\* save (the one it had loaded, or the one the primary file held when the
\* save began) or the complete new map, never an empty or another map; the
\* store whose data was recovered from the backup of a corrupt primary
\* included.
C22_CrashSafe ==
    [][IsCrashStep =>
          \/ data' = data
          \/ data' = loaded
          \/ (prevPrimary.kind = "json" /\ data' = parse_text(prevPrimary))]_vars

-----------------------------------------------------------------------------
(* Recalculation against the computation that stored the record.            *)

IsRegisterStep == ops' = ops + 1 /\ lastOp'.op = "register"

\* recalc_month of the month of dk, with the rule parameters c, leaves the
\* record of dk as it is
RecalcKeeps(map, c, dk) == recalc_month(map, c, <<dk[1], dk[2]>>).map[dk] = map[dk]

\* C23: recalculation agrees with the computation that stored the record:
\* right after a punch-out at any time not before the punch-in (a later
\* calendar day included), and right after a manual registration with the
\* configured rounding step, recalc_month of the record's month with the same
\* rounding step and fixed break leaves the record's worked_minutes unchanged.
C23_RecalcAgreesWithOriginal ==
    [][/\ (/\ IsPunchOutStep /\ lastOp'.done
           /\ lastOp'.now >= dt_on(lastOp'.date, data[lastOp'.date].start))
              => RecalcKeeps(data', cfg', lastOp'.date)
       /\ (/\ IsRegisterStep /\ lastOp'.done
           /\ lastOp'.rounding = cfg.rounding_minutes)
              => RecalcKeeps(data', cfg', lastOp'.date)]_vars

-----------------------------------------------------------------------------
(* main(): the single-instance guard, two launches of the application.      *)
(*   launch[p]: "main" before the probe, "connected" after a probe that     *)
(*   connected, "alone" after one that did not, "removed" after            *)
(*   removeServer, "listening" after listen, "window" once MainWindow       *)
(*   exists and the event loop runs, "exited" after sys.exit.               *)

\* connections not yet handled by a server, at most
MaxPending == 2

NoStoreStep ==
    UNCHANGED <<data, cfg, primary, backup, tmp, pc, lockHeld, after, prevPrimary,
                saveStatus, failedAt, loadStatus, loaded, lastOp, ops, args, result>>

InitLaunch ==
    /\ launch = [p \in Procs |-> "main"]
    /\ listener = 0
    /\ pending = [p \in Procs |-> 0]
    /\ data = EmptyMap
    /\ args = <<>>
    /\ result = <<>>
    /\ Quiescent

\* lines 970-971: connectToServer and waitForConnected; the connection is made
\* when a server listens under the key, whether or not its owner has reached
\* the event loop
Probe(p) ==
    /\ launch[p] = "main"
    /\ IF listener # 0
       THEN /\ launch' = [launch EXCEPT ![p] = "connected"]
            /\ pending' = [pending EXCEPT ![listener] = @ + 1]
       ELSE /\ launch' = [launch EXCEPT ![p] = "alone"]
            /\ pending' = pending
    /\ listener' = listener
    /\ NoStoreStep

\* lines 972-978: ACTIVATE is written, the socket is closed, sys.exit(0)
Activate(p) ==
    /\ launch[p] = "connected"
    /\ launch' = [launch EXCEPT ![p] = "exited"]
    /\ UNCHANGED <<listener, pending>>
    /\ NoStoreStep

\* line 981: QLocalServer.removeServer(key): where the key is a socket file
\* it is deleted, the file of a live server included; where it is a named
\* pipe nothing is removed
RemoveServer(p) ==
    /\ launch[p] = "alone"
    /\ launch' = [launch EXCEPT ![p] = "removed"]
    /\ listener' \in {0, listener}
    /\ pending' = pending
    /\ NoStoreStep

\* line 982: server.listen(key); its result is not looked at, so a failed
\* listen (the key is taken) goes on like a successful one
Listen(p) ==
    /\ launch[p] = "removed"
    /\ launch' = [launch EXCEPT ![p] = "listening"]
    /\ listener' = IF listener = 0 THEN p ELSE listener
    /\ pending' = pending
    /\ NoStoreStep

\* lines 984-994: MainWindow() (and with it WorkStore) is created and shown,
\* newConnection is connected, the event loop starts
CreateWindow(p) ==
    /\ launch[p] = "listening"
    /\ launch' = [launch EXCEPT ![p] = "window"]
    /\ UNCHANGED <<listener, pending>>
    /\ NoStoreStep

\* lines 986-991: on_new_connection: the pending connection is closed and the
\* window raised
OnNewConnection(p) ==
    /\ launch[p] = "window"
    /\ pending[p] > 0
    /\ pending' = [pending EXCEPT ![p] = @ - 1]
    /\ UNCHANGED <<launch, listener>>
    /\ NoStoreStep

\* the window is closed: app.exec() returns, the server goes with the process
Quit(p) ==
    /\ launch[p] = "window"
    /\ launch' = [launch EXCEPT ![p] = "exited"]
    /\ listener' = IF listener = p THEN 0 ELSE listener
    /\ pending' = [pending EXCEPT ![p] = 0]
    /\ NoStoreStep

\* the application is launched again in a process that has exited
Relaunch(p) ==
    /\ launch[p] = "exited"
    /\ \A q \in Procs : pending[q] < MaxPending
    /\ launch' = [launch EXCEPT ![p] = "main"]
    /\ UNCHANGED <<listener, pending>>
    /\ NoStoreStep

NextLaunch ==
    \E p \in Procs :
        \/ Probe(p) \/ Activate(p) \/ RemoveServer(p) \/ Listen(p)
        \/ CreateWindow(p) \/ OnNewConnection(p) \/ Quit(p) \/ Relaunch(p)

SpecLaunch == InitLaunch /\ [][NextLaunch]_vars

\* C24: single-instance guard: in every interleaving of two launches at most
\* one process gets past the probe of main() and has a MainWindow (and so a
\* WorkStore writing the data file) at a time; the other one connects to the
\* running instance, asks it to activate and exits.
C24_SingleInstance ==
    Cardinality({p \in Procs : launch[p] = "window"}) <= 1

====
